---------------------------- MODULE Spec2Model ----------------------------
(***************************************************************************)
(* Battery-cycler metrics: the form pipeline process_battery_data and its  *)
(* Tk front end (src/test.py) and the ESR batch script (src/app.py).       *)
(*                                                                         *)
(* Text is a sequence of one-character strings, a spreadsheet cell is a    *)
(* record [k, n, d, s]: k = "fin" is the rational n/d, "nan" a blank or a  *)
(* coerced cell, "pinf"/"ninf" a float infinity and "text" the text s.     *)
(* A DataFrame is a record [columns, rows]: the column names and the rows, *)
(* each row a tuple with one cell per column.  The column "ESR (Ohm)"      *)
(* stands for the source's ESR column, whose name ends in an omega sign.   *)
(***************************************************************************)
EXTENDS Integers, Sequences, FiniteSets, TLC

(***************************************************************************)
(* Characters and text                                                     *)
(***************************************************************************)
UpperChars == <<"A","B","C","D","E","F","G","H","I","J","K","L","M",
                "N","O","P","Q","R","S","T","U","V","W","X","Y","Z">>

LowerChars == <<"a","b","c","d","e","f","g","h","i","j","k","l","m",
                "n","o","p","q","r","s","t","u","v","w","x","y","z">>

DigitChars == <<"0","1","2","3","4","5","6","7","8","9">>

Range(f) == {f[x] : x \in DOMAIN f}

\* Body of the value of v, with v evaluated once
With(v, Body(_)) == CHOOSE r \in {Body(x) : x \in {v}} : TRUE

LowerOf == [c \in Range(UpperChars) |->
              LowerChars[CHOOSE j \in 1..26 : UpperChars[j] = c]]

\* str.lower() on one character
LowerChar(c) == IF c \in DOMAIN LowerOf THEN LowerOf[c] ELSE c

\* str.lower()
Lower(s) == [j \in 1..Len(s) |-> LowerChar(s[j])]

\* the regular expression class \s
IsSpace(c) == c \in {" ", "\t", "\n", "\r", "\f"}

\* the regular expression class \w
WordChars ==
  Range(UpperChars) \cup Range(LowerChars) \cup Range(DigitChars) \cup {"_"}

IsWordChar(c) == c \in WordChars

\* str.strip(): leading and trailing whitespace removed
Strip(s) ==
  LET keep == {j \in 1..Len(s) : ~IsSpace(s[j])}
  IN  IF keep = {} THEN <<>>
      ELSE LET lo == CHOOSE j \in keep : \A m \in keep : j <= m
               hi == CHOOSE j \in keep : \A m \in keep : j >= m
           IN  SubSeq(s, lo, hi)

\* the literal pat occurs in s at position p
LitAt(pat, s, p) ==
  /\ p >= 1
  /\ p + Len(pat) - 1 <= Len(s)
  /\ \A j \in 1..Len(pat) : s[p + j - 1] = pat[j]

\* Python's "sub in s"
Contains(sub, s) == \E p \in 1..(Len(s) + 1) : LitAt(sub, s, p)

\* the regular expression assertion \b just before position p of s
WordBoundary(s, p) ==
  LET before == p - 1 >= 1 /\ p - 1 <= Len(s) /\ IsWordChar(s[p - 1])
      after  == p >= 1 /\ p <= Len(s) /\ IsWordChar(s[p])
  IN  before # after

\* re.search of  \bcc\b.*(?:w1|w2|...)  in s, s already folded to lower case;
\* "." matches anything but a line feed
CcThen(words, s) ==
  \E p \in 1..Len(s) :
    /\ LitAt(<<"c","c">>, s, p)
    /\ WordBoundary(s, p)
    /\ WordBoundary(s, p + 2)
    /\ \E q \in (p + 2)..Len(s) :
         /\ \E w \in words : LitAt(w, s, q)
         /\ \A j \in (p + 2)..(q - 1) : s[j] # "\n"

\* re.search of  constant\s*current\s*<last>  in s, s folded to lower case
ConstantCurrent(last, s) ==
  \E p \in 1..Len(s) :
    /\ LitAt(<<"c","o","n","s","t","a","n","t">>, s, p)
    /\ \E q \in (p + 8)..Len(s) :
         /\ \A j \in (p + 8)..(q - 1) : IsSpace(s[j])
         /\ LitAt(<<"c","u","r","r","e","n","t">>, s, q)
         /\ \E r \in (q + 7)..Len(s) :
              /\ \A j \in (q + 7)..(r - 1) : IsSpace(s[j])
              /\ LitAt(last, s, r)

W_chg       == <<"c","h","g">>
W_charge    == <<"c","h","a","r","g","e">>
W_dchg      == <<"d","c","h","g">>
W_disch     == <<"d","i","s","c","h">>
W_discharge == <<"d","i","s","c","h","a","r","g","e">>

\* a charge pattern that leaves out what the discharge pattern matches
ChargeNotDischarge(s) ==
  With(Lower(s), LAMBDA t :
    /\ CcThen({W_chg, W_charge}, t) \/ ConstantCurrent(W_charge, t)
    /\ ~CcThen({W_dchg, W_disch, W_discharge}, t)
    /\ ~ConstantCurrent(W_discharge, t))

\* the charge pattern, flags=re.IGNORECASE
ChargePattern(s) ==
  With(Lower(s), LAMBDA t :
    \/ CcThen({W_chg, W_charge}, t)
    \/ ConstantCurrent(W_charge, t))

\* the discharge pattern, flags=re.IGNORECASE
DischargePattern(s) ==
  With(Lower(s), LAMBDA t :
    \/ CcThen({W_dchg, W_disch, W_discharge}, t)
    \/ ConstantCurrent(W_discharge, t))

(***************************************************************************)
(* Cells and float arithmetic                                              *)
(***************************************************************************)
RECURSIVE Gcd(_, _)
Gcd(a, b) == IF b = 0 THEN a ELSE Gcd(b, a % b)

Abs(a) == IF a < 0 THEN -a ELSE a

NaN  == [k |-> "nan",  n |-> 0, d |-> 1, s |-> <<>>]
PInf == [k |-> "pinf", n |-> 0, d |-> 1, s |-> <<>>]
NInf == [k |-> "ninf", n |-> 0, d |-> 1, s |-> <<>>]

\* the finite float n/d, in lowest terms with a positive denominator
Fin(n, d) ==
  LET g  == Gcd(Abs(n), Abs(d))
      sg == IF d < 0 THEN -1 ELSE 1
  IN  [k |-> "fin", n |-> sg * (n \div g), d |-> sg * (d \div g), s |-> <<>>]

Num(n) == Fin(n, 1)

\* a text cell
Text(s) == [k |-> "text", n |-> 0, d |-> 1, s |-> s]

IsNaN(x) == x.k = "nan"
IsFin(x) == x.k = "fin"
IsInf(x) == x.k \in {"pinf", "ninf"}

\* a < b for finite floats
Less(a, b) == a.n * b.d < b.n * a.d

\* float subtraction a - b (nan propagates; inf - inf of one sign is nan)
Sub(a, b) ==
  IF IsNaN(a) \/ IsNaN(b) THEN NaN
  ELSE IF IsFin(a) /\ IsFin(b) THEN Fin(a.n * b.d - b.n * a.d, a.d * b.d)
  ELSE IF IsFin(b) THEN a
  ELSE IF IsFin(a) THEN (IF b.k = "pinf" THEN NInf ELSE PInf)
  ELSE IF a.k = b.k THEN NaN
  ELSE a

\* float addition
Add(a, b) ==
  IF IsNaN(a) \/ IsNaN(b) THEN NaN
  ELSE IF IsFin(a) /\ IsFin(b) THEN Fin(a.n * b.d + b.n * a.d, a.d * b.d)
  ELSE IF IsFin(b) THEN a
  ELSE IF IsFin(a) THEN b
  ELSE IF a.k = b.k THEN a
  ELSE NaN

\* float division a / b as numpy does it: x/0 is an infinity, 0/0 is nan,
\* and nothing is raised
Div(a, b) ==
  IF IsNaN(a) \/ IsNaN(b) THEN NaN
  ELSE IF IsFin(a) /\ IsFin(b)
       THEN IF b.n = 0
            THEN (IF a.n = 0 THEN NaN ELSE IF a.n > 0 THEN PInf ELSE NInf)
            ELSE Fin(a.n * b.d, a.d * b.n)
  ELSE IF IsInf(a) /\ IsInf(b) THEN NaN
  ELSE IF IsInf(b) THEN Num(0)
  ELSE IF (a.k = "pinf") = (b.n >= 0) THEN PInf
  ELSE NInf

\* float multiplication by the integer constant c > 0
Times(a, c) == IF IsFin(a) THEN Fin(a.n * c, a.d) ELSE a

\* the integer part q and remainder r of n * 10^digits / d, for n >= 0, d > 0
RECURSIVE LongDiv(_, _, _)
LongDiv(n, d, digits) ==
  IF digits = 0 THEN <<n \div d, n % d>>
  ELSE LET p == LongDiv(n, d, digits - 1)
       IN  <<p[1] * 10 + ((p[2] * 10) \div d), (p[2] * 10) % d>>

RECURSIVE Pow10(_)
Pow10(digits) == IF digits = 0 THEN 1 ELSE 10 * Pow10(digits - 1)

\* rounding to a number of decimals, halves to even (numpy.round, "%.6f")
RoundDec(x, digits) ==
  IF ~IsFin(x) THEN x
  ELSE LET p    == LongDiv(Abs(x.n), x.d, digits)
           q    == p[1]
           r    == p[2]
           up   == 2 * r > x.d \/ (2 * r = x.d /\ q % 2 = 1)
           mag  == IF up THEN q + 1 ELSE q
       IN  Fin((IF x.n < 0 THEN -mag ELSE mag), Pow10(digits))

\* the integer a string of decimal digits writes
RECURSIVE DigitsValue(_)
DigitsValue(s) ==
  IF s = <<>> THEN 0
  ELSE 10 * DigitsValue(SubSeq(s, 1, Len(s) - 1))
       + ((CHOOSE j \in 1..10 : DigitChars[j] = s[Len(s)]) - 1)

IsDigits(s) == s # <<>> /\ \A j \in 1..Len(s) : s[j] \in Range(DigitChars)

\* pd.to_numeric(errors="coerce") on one cell: a number stays, a blank is
\* nan, text that writes an integer is parsed and any other text is nan
ToNumeric(x) ==
  IF x.k # "text" THEN x
  ELSE With(Strip(x.s), LAMBDA t :
         IF IsDigits(t) THEN Num(DigitsValue(t))
         ELSE IF t # <<>> /\ t[1] = "-" /\ IsDigits(Tail(t)) THEN Num(-DigitsValue(Tail(t)))
         ELSE NaN)

\* str() of a natural number
RECURSIVE NatStr(_)
NatStr(n) ==
  IF n < 10 THEN <<DigitChars[n + 1]>>
  ELSE Append(NatStr(n \div 10), DigitChars[(n % 10) + 1])

\* astype(str) on one cell of the step column: text stays, a blank reads
\* "nan" and a whole number reads as its digits
AsStr(x) ==
  IF x.k = "text" THEN x.s
  ELSE IF x.k = "nan" THEN <<"n","a","n">>
  ELSE NatStr(Abs(x.n))

\* Series.max(): the largest value, nan skipped; nan when nothing is left
SeriesMax(vals) ==
  LET live == {j \in 1..Len(vals) : ~IsNaN(vals[j])}
  IN  IF live = {} THEN NaN
      ELSE IF \E j \in live : vals[j].k = "pinf" THEN PInf
      ELSE IF \A j \in live : vals[j].k = "ninf" THEN NInf
      ELSE LET fin == {j \in live : IsFin(vals[j])}
           IN  vals[CHOOSE j \in fin : \A m \in fin : ~Less(vals[j], vals[m])]

RECURSIVE SumSeq(_)
SumSeq(vals) == IF vals = <<>> THEN Num(0) ELSE Add(Head(vals), SumSeq(Tail(vals)))

\* Series.mean(): the sum of the values that are not nan over their count;
\* nan when none is left
\* a mean that divides by the number of all entries
MeanOverAll(vals) ==
  With(SelectSeq(vals, LAMBDA x : ~IsNaN(x)), LAMBDA live :
    IF live = <<>> THEN NaN ELSE Div(SumSeq(live), Num(Len(vals))))

SeriesMean(vals) ==
  With(SelectSeq(vals, LAMBDA x : ~IsNaN(x)), LAMBDA live :
    IF live = <<>> THEN NaN ELSE Div(SumSeq(live), Num(Len(live))))


(***************************************************************************)
(* DataFrames: [columns, rows], a row being a tuple with one cell per      *)
(* column                                                                  *)
(***************************************************************************)
Frame(columns, rows) == [columns |-> columns, rows |-> rows]

\* pd.DataFrame()
EmptyFrame == Frame(<<>>, <<>>)

\* DataFrame.empty: an axis of length 0
\* an emptiness test that never finds a table empty
NeverEmpty(f) == FALSE

IsEmpty(f) == Len(f.columns) = 0 \/ Len(f.rows) = 0

ColIdx(f, name) == CHOOSE j \in 1..Len(f.columns) : f.columns[j] = name

\* f[name]
Column(f, name) ==
  With(ColIdx(f, name), LAMBDA j : [r \in 1..Len(f.rows) |-> f.rows[r][j]])

\* f[mask]
Filter(f, mask) ==
  LET RECURSIVE Pick(_)
      Pick(r) == IF r = 0 THEN <<>>
                 ELSE IF mask[r] THEN Append(Pick(r - 1), f.rows[r])
                 ELSE Pick(r - 1)
  IN  Frame(f.columns, Pick(Len(f.rows)))

\* finite cells in ascending order
RECURSIVE SortCells(_)
SortCells(S) ==
  IF S = {} THEN <<>>
  ELSE With(CHOOSE x \in S : \A y \in S : ~Less(y, x), LAMBDA m :
         <<m>> \o SortCells(S \ {m}))

\* the values of vc on the rows whose key in kc is c
ValuesOf(kc, vc, c) ==
  LET RECURSIVE Take(_)
      Take(r) == IF r = 0 THEN <<>>
                 ELSE IF kc[r] = c THEN Append(Take(r - 1), vc[r])
                 ELSE Take(r - 1)
  IN  Take(Len(kc))

\* f.groupby(key)[val].max().reset_index(): one row per key that is not
\* nan, keys ascending, the maximum of val over the key's rows
GroupMax(f, key, val) ==
  With(Column(f, key), LAMBDA kc :
  With(Column(f, val), LAMBDA vc :
  With(SortCells({kc[r] : r \in {q \in 1..Len(kc) : ~IsNaN(kc[q])}}), LAMBDA keys :
    Frame(<<key, val>>,
          [j \in 1..Len(keys) |-> <<keys[j], SeriesMax(ValuesOf(kc, vc, keys[j]))>>]))))

\* the row of a with key c in column ai, or a row of nan
LeftRow(a, ai, c) ==
  IF \E r \in 1..Len(a.rows) : a.rows[r][ai] = c
  THEN a.rows[CHOOSE r \in 1..Len(a.rows) : a.rows[r][ai] = c]
  ELSE [j \in 1..Len(a.columns) |-> IF j = ai THEN c ELSE NaN]

\* the value of b (key in column bk, value in column bv) for key c, or nan
RightValue(b, bk, bv, c) ==
  IF \E r \in 1..Len(b.rows) : b.rows[r][bk] = c
  THEN b.rows[CHOOSE r \in 1..Len(b.rows) : b.rows[r][bk] = c][bv]
  ELSE NaN

\* a.merge(b, on=on, how="outer", suffixes=suffixes) for a two-column b
\* (on, value) with one row per key: the keys of either side, ascending, a
\* side without the key giving nan; a value column name both sides have
\* gets the suffixes
Merge(a, b, on, suffixes) ==
  With(ColIdx(a, on), LAMBDA ai :
  With(ColIdx(b, on), LAMBDA bk :
  With(b.columns[3 - bk], LAMBDA x :
  With(SortCells({a.rows[r][ai] : r \in 1..Len(a.rows)}
                 \cup {b.rows[r][bk] : r \in 1..Len(b.rows)}), LAMBDA keys :
    Frame(Append([j \in 1..Len(a.columns) |->
                    IF j # ai /\ a.columns[j] = x
                    THEN a.columns[j] \o suffixes[1] ELSE a.columns[j]],
                 IF \E j \in 1..Len(a.columns) : j # ai /\ a.columns[j] = x
                 THEN x \o suffixes[2] ELSE x),
          [j \in 1..Len(keys) |->
             Append(LeftRow(a, ai, keys[j]), RightValue(b, bk, 3 - bk, keys[j]))])))))

SuffixXY == << <<"_","x">>, <<"_","y">> >>

\* f.columns = names
Rename(f, names) == Frame(names, f.rows)

\* f.sort_values(name): rows by ascending value of one column
SortValues(f, name) ==
  LET RECURSIVE Sorted(_, _)
      Sorted(j, R) ==
        IF R = {} THEN <<>>
        ELSE With(CHOOSE r \in R : \A q \in R :
                    \/ Less(f.rows[r][j], f.rows[q][j])
                    \/ (~Less(f.rows[q][j], f.rows[r][j]) /\ r <= q),
                  LAMBDA m : <<f.rows[m]>> \o Sorted(j, R \ {m}))
  IN  Frame(f.columns, Sorted(ColIdx(f, name), 1..Len(f.rows)))

\* f.dropna(subset=cols): the rows with no nan in the columns at cols
DropNa(f, cols) ==
  Frame(f.columns,
        SelectSeq(f.rows, LAMBDA row : \A j \in cols : ~IsNaN(row[j])))

\* f[name] = values
WithColumn(f, name, values) ==
  Frame(Append(f.columns, name),
        [r \in 1..Len(f.rows) |-> Append(f.rows[r], values[r])])

\* cell by cell over a frame
MapCells(f, Op(_)) ==
  Frame(f.columns,
        [r \in 1..Len(f.rows) |-> [j \in 1..Len(f.rows[r]) |-> Op(f.rows[r][j])]])

\* element-wise a - b, a / b and a * 100 over two columns
SubCols(a, b) ==
  With(<<a, b>>, LAMBDA p : [r \in 1..Len(p[1]) |-> Sub(p[1][r], p[2][r])])

DivCols(a, b) ==
  With(<<a, b>>, LAMBDA p : [r \in 1..Len(p[1]) |-> Div(p[1][r], p[2][r])])

Times100(a) == With(a, LAMBDA p : [r \in 1..Len(p) |-> Times(p[r], 100)])


(***************************************************************************)
(* Column resolution                                                       *)
(***************************************************************************)
\* df.columns.str.strip().str.lower()
NormalizeColumns(columns) == [j \in 1..Len(columns) |-> Lower(Strip(columns[j]))]

S_cycle   == <<"c","y","c","l","e">>
S_index   == <<"i","n","d","e","x">>
S_voltage == <<"v","o","l","t","a","g","e">>
S_current == <<"c","u","r","r","e","n","t">>
S_step    == <<"s","t","e","p">>
S_type    == <<"t","y","p","e">>
S_chg_cap  == <<"c","h","g","."," ","c","a","p",".","(","a","h",")">>
S_dchg_cap == <<"d","c","h","g","."," ","c","a","p",".","(","a","h",")">>
S_chg_nrg  == <<"c","h","g","."," ","e","n","e","r","g","y","(","w","h",")">>
S_dchg_nrg == <<"d","c","h","g","."," ","e","n","e","r","g","y","(","w","h",")">>

\* the four list comprehensions both programs start with
EsrLists(columns) ==
  [cycle_col   |-> SelectSeq(columns, LAMBDA c : Contains(S_cycle, c) /\ Contains(S_index, c)),
   voltage_col |-> SelectSeq(columns, LAMBDA c : Contains(S_voltage, c)),
   current_col |-> SelectSeq(columns, LAMBDA c : Contains(S_current, c)),
   step_col    |-> SelectSeq(columns, LAMBDA c : Contains(S_step, c) /\ Contains(S_type, c))]

\* the four more of process_battery_data
CapLists(columns) ==
  [chg_cap_col  |-> SelectSeq(columns, LAMBDA c : Contains(S_chg_cap, c)),
   dchg_cap_col |-> SelectSeq(columns, LAMBDA c : Contains(S_dchg_cap, c)),
   chg_nrg_col  |-> SelectSeq(columns, LAMBDA c : Contains(S_chg_nrg, c)),
   dchg_nrg_col |-> SelectSeq(columns, LAMBDA c : Contains(S_dchg_nrg, c))]

EsrFields == {"cycle_col", "voltage_col", "current_col", "step_col"}
CapFields == {"chg_cap_col", "dchg_cap_col", "chg_nrg_col", "dchg_nrg_col"}
AllFields == EsrFields \cup CapFields

FormLists(columns) ==
  With(<<EsrLists(columns), CapLists(columns)>>, LAMBDA p :
    [f \in AllFields |-> IF f \in EsrFields THEN p[1][f] ELSE p[2][f]])

\* some [...][0] raises IndexError
RaisesIndexError(lists) == \E f \in DOMAIN lists : lists[f] = <<>>

\* [...][0] of every list
FirstOfEach(lists) == [f \in DOMAIN lists |-> lists[f][1]]

NoCols == [f \in AllFields |-> <<>>]

(***************************************************************************)
(* What process_battery_data returns: (merged_df, summary_metrics, error)  *)
(***************************************************************************)
NoFrame      == [none |-> TRUE, frame |-> EmptyFrame]
SomeFrame(f) == [none |-> FALSE, frame |-> f]

NoSummary == [none |-> TRUE, avg_esr |-> NaN, avg_ce |-> NaN, avg_ee |-> NaN]

NoError == [none |-> TRUE, msg |-> "", fields |-> {}]

Failure(error) == [df |-> NoFrame, summary |-> NoSummary, error |-> error]

MsgNotFound  == "Error: File not found at <path>"
MsgUnreadable == "Error reading Excel file: <e>"
MsgColumns   == "Error: Could not find required columns."
MsgNoCharge  == "Error: No 'Constant Current Charge' steps found."
MsgNoDischarge == "Error: No 'Constant Current Discharge' steps found."
MsgNoCycles  == "Error: No matching charge/discharge cycles found."

\* an error message that lists no column
ErrorOf(msg) == [none |-> FALSE, msg |-> msg, fields |-> {}]

\* the message of the except IndexError branch: one fixed text, with a
\* "- ..." line for each of the eight columns
ColumnsError(lists) == [none |-> FALSE, msg |-> MsgColumns, fields |-> AllFields]

(***************************************************************************)
(* The stages of process_battery_data                                      *)
(***************************************************************************)
\* pd.to_numeric over the given columns
Coerce(f, numeric) ==
  Frame(f.columns,
        [r \in 1..Len(f.rows) |->
           [j \in 1..Len(f.rows[r]) |->
              IF j \in numeric THEN ToNumeric(f.rows[r][j]) ELSE f.rows[r][j]]])

\* pd.to_numeric over the six numeric columns, then a dropna without its
\* subset
CoerceDropAny(f, c) ==
  With(Coerce(f, {ColIdx(f, c[x]) : x \in AllFields \ {"cycle_col", "step_col"}}),
       LAMBDA coerced : DropNa(coerced, 1..Len(coerced.columns)))

\* pd.to_numeric over the six numeric columns, then dropna on voltage and
\* current
FormCoerce(f, c) ==
  With(Coerce(f, {ColIdx(f, c[x]) : x \in AllFields \ {"cycle_col", "step_col"}}),
       LAMBDA coerced :
         DropNa(coerced, {ColIdx(f, c.voltage_col), ColIdx(f, c.current_col)}))

\* df[step_col].astype(str).str.contains(pattern, flags=re.IGNORECASE)
StepMask(f, step_col, Pattern(_)) ==
  With(ColIdx(f, step_col), LAMBDA j :
    [r \in 1..Len(f.rows) |-> Pattern(AsStr(f.rows[r][j]))])

MaskCcChg(f, step_col)  == StepMask(f, step_col, ChargePattern)
MaskCcDchg(f, step_col) == StepMask(f, step_col, DischargePattern)

FormNames ==
  <<"Cycle Index", "Max Voltage CC-Chg (V)", "Max Voltage CC-DChg (V)",
    "Max Current CC-Chg (A)", "Max Current CC-DChg (A)",
    "Charge Capacity (Ah)", "Discharge Capacity (Ah)",
    "Charge Energy (Wh)", "Discharge Energy (Wh)">>

\* the eight outer joins and the positional renaming
FormJoin(cycle_col, vc, vd, ic, id, cc, dc, cn, dn) ==
  With(Merge(vc, vd, cycle_col, << <<"_","c","h","g","_","v">>, <<"_","d","c","h","g","_","v">> >>), LAMBDA m1 :
  With(Merge(m1, ic, cycle_col, SuffixXY), LAMBDA m2 :
  With(Merge(m2, id, cycle_col, << <<"_","c","h","g","_","i">>, <<"_","d","c","h","g","_","i">> >>), LAMBDA m3 :
  With(Merge(m3, cc, cycle_col, SuffixXY), LAMBDA m4 :
  With(Merge(m4, dc, cycle_col, SuffixXY), LAMBDA m5 :
  With(Merge(m5, cn, cycle_col, SuffixXY), LAMBDA m6 :
  With(Merge(m6, dn, cycle_col, SuffixXY), LAMBDA m7 :
    Rename(m7, FormNames))))))))

\* merged.sort_values("Cycle Index").dropna()
FormComplete(joined) ==
  With(SortValues(joined, "Cycle Index"), LAMBDA sorted :
    DropNa(sorted, 1..Len(sorted.columns)))

\* merged.replace([inf, -inf], nan) on one cell
ReplaceInf(x) == IF IsInf(x) THEN NaN ELSE x

\* the ESR column of a joined table
EsrColumn(m) ==
  DivCols(SubCols(Column(m, "Max Voltage CC-Chg (V)"), Column(m, "Max Voltage CC-DChg (V)")),
          SubCols(Column(m, "Max Current CC-Chg (A)"), Column(m, "Max Current CC-DChg (A)")))

\* the three derived columns, infinities replaced
FormMetrics(m) ==
  With(WithColumn(m, "ESR (Ohm)", EsrColumn(m)), LAMBDA e1 :
  With(WithColumn(e1, "Coulombic Efficiency (%)",
         Times100(DivCols(Column(m, "Discharge Capacity (Ah)"),
                          Column(m, "Charge Capacity (Ah)")))), LAMBDA e2 :
  With(WithColumn(e2, "Energy Efficiency (%)",
         Times100(DivCols(Column(m, "Discharge Energy (Wh)"),
                          Column(m, "Charge Energy (Wh)")))), LAMBDA e3 :
    MapCells(e3, ReplaceInf))))

FormSummary(m) ==
  [none    |-> FALSE,
   avg_esr |-> SeriesMean(Column(m, "ESR (Ohm)")),
   avg_ce  |-> SeriesMean(Column(m, "Coulombic Efficiency (%)")),
   avg_ee  |-> SeriesMean(Column(m, "Energy Efficiency (%)"))]

\* merged.round(6)
Round6(x) == RoundDec(x, 6)

FormRound(m) == MapCells(m, Round6)


(***************************************************************************)
(* process_battery_data in one piece, as load_file calls it                *)
(***************************************************************************)
ProcessBatteryData(file) ==
  IF file.status = "missing" THEN Failure(ErrorOf(MsgNotFound))
  ELSE IF file.status # "ok" THEN Failure(ErrorOf(MsgUnreadable))
  ELSE
  With(Frame(NormalizeColumns(file.headers), file.rows), LAMBDA f0 :
  With(FormLists(f0.columns), LAMBDA lists :
  IF RaisesIndexError(lists) THEN Failure(ColumnsError(lists))
  ELSE
  With(FirstOfEach(lists), LAMBDA c :
  With(FormCoerce(f0, c), LAMBDA f :
  With(Filter(f, MaskCcChg(f, c.step_col)), LAMBDA chg :
  IF IsEmpty(chg) THEN Failure(ErrorOf(MsgNoCharge))
  ELSE
  With(Filter(f, MaskCcDchg(f, c.step_col)), LAMBDA dchg :
  IF IsEmpty(dchg) THEN Failure(ErrorOf(MsgNoDischarge))
  ELSE
  With(<<GroupMax(chg, c.cycle_col, c.voltage_col),
         GroupMax(dchg, c.cycle_col, c.voltage_col),
         GroupMax(chg, c.cycle_col, c.current_col),
         GroupMax(dchg, c.cycle_col, c.current_col),
         GroupMax(f, c.cycle_col, c.chg_cap_col),
         GroupMax(f, c.cycle_col, c.dchg_cap_col),
         GroupMax(f, c.cycle_col, c.chg_nrg_col),
         GroupMax(f, c.cycle_col, c.dchg_nrg_col)>>, LAMBDA g :
  With(FormJoin(c.cycle_col, g[1], g[2], g[3], g[4], g[5], g[6], g[7], g[8]), LAMBDA joined :
  With(FormComplete(joined), LAMBDA m :
  IF IsEmpty(m) THEN Failure(ErrorOf(MsgNoCycles))
  ELSE
  With(FormMetrics(m), LAMBDA e :
    [df      |-> SomeFrame(FormRound(e)),
     summary |-> FormSummary(e),
     error   |-> NoError]))))))))))

(***************************************************************************)
(* State                                                                   *)
(***************************************************************************)
VARIABLES
  excel_file,      \* the spreadsheet: [status, headers, rows]
  prog,            \* "form": process_battery_data; "batch": the script app.py;
                   \* "ui": the Tk application
  pc,              \* the position in the program
  df, cols,
  mask_cc_chg, df_cc_chg, max_v_cc_chg, max_i_cc_chg,
  mask_cc_dchg, df_cc_dchg, max_v_cc_dchg, max_i_cc_dchg,
  chg_cap, dchg_cap, chg_nrg, dchg_nrg,
  merged, summary_metrics,
  ret,             \* what process_battery_data returned
  out, dv, di, esr, \* app.py: the first table and the three printed numbers
  selected_file, average_esr, average_ce, average_ee,
  results_df, export_button, tree,
  dialog,          \* the message box last shown
  saved,           \* what export_results last wrote
  last_load        \* how the last load that was not cancelled ended

inputVars == <<excel_file, prog>>
chgVars   == <<mask_cc_chg, df_cc_chg, max_v_cc_chg, max_i_cc_chg>>
dchgVars  == <<mask_cc_dchg, df_cc_dchg, max_v_cc_dchg, max_i_cc_dchg>>
capVars   == <<chg_cap, dchg_cap, chg_nrg, dchg_nrg>>
batchVars == <<out, dv, di, esr>>
uiVars    == <<selected_file, average_esr, average_ce, average_ee,
               results_df, export_button, tree, dialog, saved, last_load>>
pipeVars  == <<pc, df, cols, chgVars, dchgVars, capVars, merged,
               summary_metrics, ret, batchVars>>
vars      == <<inputVars, pipeVars, uiVars>>

NotReturned == [df |-> NoFrame, summary |-> NoSummary, error |-> NoError]

\* a label of the window: N/A or a formatted number
LabelNA          == [k |-> "N/A", v |-> NaN]
LabelValue(x, digits) == [k |-> "value", v |-> RoundDec(x, digits)]

NoDialog == [kind |-> "", text |-> ""]
NoSaved  == [path |-> "", format |-> "", table |-> EmptyFrame]

\* the window after __init__
InitUI ==
  /\ selected_file = "No file selected."
  /\ average_esr = LabelNA
  /\ average_ce = LabelNA
  /\ average_ee = LabelNA
  /\ results_df = NoFrame
  /\ export_button = "disabled"
  /\ tree = EmptyFrame
  /\ dialog = NoDialog
  /\ saved = NoSaved
  /\ last_load = "none"

\* a program before its first statement
InitPipe ==
  /\ pc = "start"
  /\ df = EmptyFrame
  /\ cols = NoCols
  /\ mask_cc_chg = <<>> /\ df_cc_chg = EmptyFrame
  /\ max_v_cc_chg = EmptyFrame /\ max_i_cc_chg = EmptyFrame
  /\ mask_cc_dchg = <<>> /\ df_cc_dchg = EmptyFrame
  /\ max_v_cc_dchg = EmptyFrame /\ max_i_cc_dchg = EmptyFrame
  /\ chg_cap = EmptyFrame /\ dchg_cap = EmptyFrame
  /\ chg_nrg = EmptyFrame /\ dchg_nrg = EmptyFrame
  /\ merged = EmptyFrame
  /\ summary_metrics = NoSummary
  /\ ret = NotReturned
  /\ out = EmptyFrame /\ dv = NaN /\ di = NaN /\ esr = NaN

(***************************************************************************)
(* process_battery_data, statement by statement                            *)
(***************************************************************************)
Return(value) ==
  /\ ret' = value
  /\ pc' = "done"

\* pd.read_excel and the normalisation of the column names
Form_Read ==
  /\ prog = "form" /\ pc = "start"
  /\ IF excel_file.status = "missing"
     THEN Return(Failure(ErrorOf(MsgNotFound))) /\ UNCHANGED df
     ELSE IF excel_file.status # "ok"
     THEN Return(Failure(ErrorOf(MsgUnreadable))) /\ UNCHANGED df
     ELSE /\ df' = Frame(NormalizeColumns(excel_file.headers), excel_file.rows)
          /\ pc' = "read"
          /\ UNCHANGED ret
  /\ UNCHANGED <<inputVars, uiVars, cols, chgVars, dchgVars, capVars, merged,
                 summary_metrics, batchVars>>

\* the eight column searches under try/except IndexError
Form_Resolve ==
  /\ prog = "form" /\ pc = "read"
  /\ \E lists \in {FormLists(df.columns)} :
       IF RaisesIndexError(lists)
       THEN Return(Failure(ColumnsError(lists))) /\ UNCHANGED cols
       ELSE /\ cols' = FirstOfEach(lists)
            /\ pc' = "resolved"
            /\ UNCHANGED ret
  /\ UNCHANGED <<inputVars, uiVars, df, chgVars, dchgVars, capVars, merged,
                 summary_metrics, batchVars>>

\* to_numeric and dropna
Form_Coerce ==
  /\ prog = "form" /\ pc = "resolved"
  /\ df' = FormCoerce(df, cols)
  /\ pc' = "coerced"
  /\ UNCHANGED <<inputVars, uiVars, cols, chgVars, dchgVars, capVars, merged,
                 summary_metrics, ret, batchVars>>

\* the CC charge rows and their per-cycle maxima
Form_Charge ==
  /\ prog = "form" /\ pc = "coerced"
  /\ mask_cc_chg' = MaskCcChg(df, cols.step_col)
  /\ df_cc_chg' = Filter(df, mask_cc_chg')
  /\ IF IsEmpty(df_cc_chg')
     THEN /\ Return(Failure(ErrorOf(MsgNoCharge)))
          /\ UNCHANGED <<max_v_cc_chg, max_i_cc_chg>>
     ELSE /\ max_v_cc_chg' = GroupMax(df_cc_chg', cols.cycle_col, cols.voltage_col)
          /\ max_i_cc_chg' = GroupMax(df_cc_chg', cols.cycle_col, cols.current_col)
          /\ pc' = "charge"
          /\ UNCHANGED ret
  /\ UNCHANGED <<inputVars, uiVars, df, cols, dchgVars, capVars, merged,
                 summary_metrics, batchVars>>

\* the CC discharge rows and their per-cycle maxima
Form_Discharge ==
  /\ prog = "form" /\ pc = "charge"
  /\ mask_cc_dchg' = MaskCcDchg(df, cols.step_col)
  /\ df_cc_dchg' = Filter(df, mask_cc_dchg')
  /\ IF IsEmpty(df_cc_dchg')
     THEN /\ Return(Failure(ErrorOf(MsgNoDischarge)))
          /\ UNCHANGED <<max_v_cc_dchg, max_i_cc_dchg>>
     ELSE /\ max_v_cc_dchg' = GroupMax(df_cc_dchg', cols.cycle_col, cols.voltage_col)
          /\ max_i_cc_dchg' = GroupMax(df_cc_dchg', cols.cycle_col, cols.current_col)
          /\ pc' = "discharge"
          /\ UNCHANGED ret
  /\ UNCHANGED <<inputVars, uiVars, df, cols, chgVars, capVars, merged,
                 summary_metrics, batchVars>>

\* capacity and energy maxima over every row
Form_Capacity ==
  /\ prog = "form" /\ pc = "discharge"
  /\ chg_cap'  = GroupMax(df, cols.cycle_col, cols.chg_cap_col)
  /\ dchg_cap' = GroupMax(df, cols.cycle_col, cols.dchg_cap_col)
  /\ chg_nrg'  = GroupMax(df, cols.cycle_col, cols.chg_nrg_col)
  /\ dchg_nrg' = GroupMax(df, cols.cycle_col, cols.dchg_nrg_col)
  /\ pc' = "capacity"
  /\ UNCHANGED <<inputVars, uiVars, df, cols, chgVars, dchgVars, merged,
                 summary_metrics, ret, batchVars>>

\* the outer joins and the renaming
Form_Join ==
  /\ prog = "form" /\ pc = "capacity"
  /\ merged' = FormJoin(cols.cycle_col, max_v_cc_chg, max_v_cc_dchg,
                        max_i_cc_chg, max_i_cc_dchg,
                        chg_cap, dchg_cap, chg_nrg, dchg_nrg)
  /\ pc' = "joined"
  /\ UNCHANGED <<inputVars, uiVars, df, cols, chgVars, dchgVars, capVars,
                 summary_metrics, ret, batchVars>>

\* sort_values, dropna and the empty check
Form_DropNa ==
  /\ prog = "form" /\ pc = "joined"
  /\ merged' = FormComplete(merged)
  /\ IF IsEmpty(merged')
     THEN Return(Failure(ErrorOf(MsgNoCycles)))
     ELSE pc' = "complete" /\ UNCHANGED ret
  /\ UNCHANGED <<inputVars, uiVars, df, cols, chgVars, dchgVars, capVars,
                 summary_metrics, batchVars>>

\* the derived columns, the replacement of infinities and the means
Form_Metrics ==
  /\ prog = "form" /\ pc = "complete"
  /\ merged' = FormMetrics(merged)
  /\ summary_metrics' = FormSummary(merged')
  /\ pc' = "metrics"
  /\ UNCHANGED <<inputVars, uiVars, df, cols, chgVars, dchgVars, capVars,
                 ret, batchVars>>

\* the rounding and the return
Form_Return ==
  /\ prog = "form" /\ pc = "metrics"
  /\ merged' = FormRound(merged)
  /\ Return([df |-> SomeFrame(merged'), summary |-> summary_metrics, error |-> NoError])
  /\ UNCHANGED <<inputVars, uiVars, df, cols, chgVars, dchgVars, capVars,
                 summary_metrics, batchVars>>


(***************************************************************************)
(* The batch script app.py, statement by statement.  An exception nothing  *)
(* catches ends the script: pc = "crashed".                                *)
(***************************************************************************)
\* pd.to_numeric over voltage and current; no row is dropped
BatchCoerce(f, c) ==
  Coerce(f, {ColIdx(f, c.voltage_col), ColIdx(f, c.current_col)})

\* groupby(...).max().reset_index() and the two new column names
BatchMax(sub, cycle_col, val_col, name) ==
  Rename(GroupMax(sub, cycle_col, val_col), <<"Cycle Index", name>>)

BatchNames ==
  <<"Cycle Index", "Max Voltage CC-Chg (V)", "Max Voltage CC-DChg (V)",
    "Max Current CC-Chg (A)", "Max Current CC-DChg (A)">>

\* the table "out": the outer joins in the order charge, charge, discharge,
\* discharge
BatchOut(vc, ic, vd, id) ==
  With(Merge(vc, ic, "Cycle Index", SuffixXY), LAMBDA m1 :
  With(Merge(m1, vd, "Cycle Index", SuffixXY), LAMBDA m2 :
  With(Merge(m2, id, "Cycle Index", SuffixXY), LAMBDA m3 :
    SortValues(m3, "Cycle Index"))))

\* the table "merged": the outer joins, the sort and the renaming
BatchMerged(vc, vd, ic, id) ==
  With(Merge(vc, vd, "Cycle Index", SuffixXY), LAMBDA m1 :
  With(Merge(m1, ic, "Cycle Index", SuffixXY), LAMBDA m2 :
  With(Merge(m2, id, "Cycle Index", SuffixXY), LAMBDA m3 :
  With(SortValues(m3, "Cycle Index"), LAMBDA sorted :
    Rename(sorted, BatchNames)))))

\* dv: the mean of the per-cycle voltage differences
BatchDv(m) ==
  SeriesMean(SubCols(Column(m, "Max Voltage CC-Chg (V)"), Column(m, "Max Voltage CC-DChg (V)")))

\* di: the mean of the per-cycle current differences
BatchDi(m) ==
  SeriesMean(SubCols(Column(m, "Max Current CC-Chg (A)"), Column(m, "Max Current CC-DChg (A)")))

\* esr = dv / di
BatchEsr(m) == Div(BatchDv(m), BatchDi(m))

\* merged["ESR"] = ... : the per-cycle column, as divided
BatchPerCycle(m) == WithColumn(m, "ESR (Ohm)", EsrColumn(m))

Batch_Read ==
  /\ prog = "batch" /\ pc = "start"
  /\ IF excel_file.status # "ok"
     THEN pc' = "crashed" /\ UNCHANGED df
     ELSE /\ df' = Frame(NormalizeColumns(excel_file.headers), excel_file.rows)
          /\ pc' = "read"
  /\ UNCHANGED <<inputVars, uiVars, cols, chgVars, dchgVars, capVars, merged,
                 summary_metrics, ret, batchVars>>

Batch_Resolve ==
  /\ prog = "batch" /\ pc = "read"
  /\ \E lists \in {EsrLists(df.columns)} :
       IF RaisesIndexError(lists)
       THEN pc' = "crashed" /\ UNCHANGED cols
       ELSE cols' = FirstOfEach(lists) /\ pc' = "resolved"
  /\ UNCHANGED <<inputVars, uiVars, df, chgVars, dchgVars, capVars, merged,
                 summary_metrics, ret, batchVars>>

Batch_Coerce ==
  /\ prog = "batch" /\ pc = "resolved"
  /\ df' = BatchCoerce(df, cols)
  /\ pc' = "coerced"
  /\ UNCHANGED <<inputVars, uiVars, cols, chgVars, dchgVars, capVars, merged,
                 summary_metrics, ret, batchVars>>

Batch_Charge ==
  /\ prog = "batch" /\ pc = "coerced"
  /\ mask_cc_chg' = MaskCcChg(df, cols.step_col)
  /\ df_cc_chg' = Filter(df, mask_cc_chg')
  /\ max_v_cc_chg' = BatchMax(df_cc_chg', cols.cycle_col, cols.voltage_col,
                              "Max Voltage CC-Chg (V)")
  /\ max_i_cc_chg' = BatchMax(df_cc_chg', cols.cycle_col, cols.current_col,
                              "Max Current CC-Chg (A)")
  /\ pc' = "charge"
  /\ UNCHANGED <<inputVars, uiVars, df, cols, dchgVars, capVars, merged,
                 summary_metrics, ret, batchVars>>

Batch_Discharge ==
  /\ prog = "batch" /\ pc = "charge"
  /\ mask_cc_dchg' = MaskCcDchg(df, cols.step_col)
  /\ df_cc_dchg' = Filter(df, mask_cc_dchg')
  /\ max_v_cc_dchg' = BatchMax(df_cc_dchg', cols.cycle_col, cols.voltage_col,
                               "Max Voltage CC-DChg (V)")
  /\ max_i_cc_dchg' = BatchMax(df_cc_dchg', cols.cycle_col, cols.current_col,
                               "Max Current CC-DChg (A)")
  /\ pc' = "discharge"
  /\ UNCHANGED <<inputVars, uiVars, df, cols, chgVars, capVars, merged,
                 summary_metrics, ret, batchVars>>

\* the first combined table, saved as .xlsx and .csv
Batch_Out ==
  /\ prog = "batch" /\ pc = "discharge"
  /\ out' = BatchOut(max_v_cc_chg, max_i_cc_chg, max_v_cc_dchg, max_i_cc_dchg)
  /\ pc' = "out"
  /\ UNCHANGED <<inputVars, uiVars, df, cols, chgVars, dchgVars, capVars, merged,
                 summary_metrics, ret, dv, di, esr>>

Batch_Merge ==
  /\ prog = "batch" /\ pc = "out"
  /\ merged' = BatchMerged(max_v_cc_chg, max_v_cc_dchg, max_i_cc_chg, max_i_cc_dchg)
  /\ pc' = "merged"
  /\ UNCHANGED <<inputVars, uiVars, df, cols, chgVars, dchgVars, capVars,
                 summary_metrics, ret, batchVars>>

\* dv, di, esr, the per-cycle column and esr_results.xlsx
Batch_Esr ==
  /\ prog = "batch" /\ pc = "merged"
  /\ dv' = BatchDv(merged)
  /\ di' = BatchDi(merged)
  /\ esr' = BatchEsr(merged)
  /\ merged' = BatchPerCycle(merged)
  /\ pc' = "done"
  /\ UNCHANGED <<inputVars, uiVars, df, cols, chgVars, dchgVars, capVars,
                 summary_metrics, ret, out>>

(***************************************************************************)
(* Input files                                                             *)
(***************************************************************************)
H_cycle    == <<"C","y","c","l","e"," ","I","n","d","e","x">>
H_step     == <<"S","t","e","p"," ","T","y","p","e">>
H_voltage  == <<"V","o","l","t","a","g","e","(","V",")">>
H_current  == <<"C","u","r","r","e","n","t","(","A",")">>
H_chg_cap  == <<"C","h","g","."," ","C","a","p",".","(","A","h",")">>
H_dchg_cap == <<"D","C","h","g","."," ","C","a","p",".","(","A","h",")">>
H_chg_nrg  == <<"C","h","g","."," ","E","n","e","r","g","y","(","W","h",")">>
H_dchg_nrg == <<"D","C","h","g","."," ","E","n","e","r","g","y","(","W","h",")">>

\* the header row of a cycler export
StdHeaders ==
  <<H_cycle, H_step, H_voltage, H_current, H_chg_cap, H_dchg_cap, H_chg_nrg, H_dchg_nrg>>

L_CcChg   == Text(<<"C","C"," ","C","h","g">>)
L_CcDChg  == Text(<<"C","C"," ","D","C","h","g">>)
L_CcDisch == Text(<<"C","C"," ","D","i","s","c","h">>)
L_Rest    == Text(<<"R","e","s","t">>)
T_abc     == Text(<<"a","b","c">>)
T_five    == Text(<<" ","5">>)

File(headers, rows) == [status |-> "ok", headers |-> headers, rows |-> rows]

NoFile      == [status |-> "none", headers |-> <<>>, rows |-> <<>>]
MissingFile == [status |-> "missing", headers |-> <<>>, rows |-> <<>>]
InvalidFile == [status |-> "invalid", headers |-> <<>>, rows |-> <<>>]

\* the most rows a generated file has
MaxRows == 3

\* the cycle indices of the generated rows
Cycles == {1, 2}

\* the non-decreasing sequences of at most n indices out of 1..m
RECURSIVE IdxSeqs(_, _)
IdxSeqs(m, n) ==
  IF n = 0 THEN {<<>>}
  ELSE LET shorter == IdxSeqs(m, n - 1)
           full    == {q \in shorter : Len(q) = n - 1}
       IN  shorter \cup
           {Append(p[1], p[2]) :
              p \in {x \in full \X (1..m) : x[1] = <<>> \/ x[1][Len(x[1])] <= x[2]}}

\* the files of at most n of the given rows, rows in the order given (no
\* stage depends on the order of the rows)
RowSeqs(options, n) ==
  {[j \in 1..Len(q) |-> options[q[j]]] : q \in IdxSeqs(Len(options), n)}

\* one row under StdHeaders
MkRow(cycle, label, vi, caps) ==
  <<Num(cycle), label, vi[1], vi[2], caps[1], caps[2], caps[3], caps[4]>>

CapsStd == <<Num(2), Num(1), Num(4), Num(3)>>

\* a row for each cycle and each (label, voltage, current, capacities)
RowOptions(kinds) ==
  [j \in 1..(Cardinality(Cycles) * Len(kinds)) |->
     LET kind == kinds[((j - 1) % Len(kinds)) + 1]
     IN  MkRow(((j - 1) \div Len(kinds)) + 1, kind[1], <<kind[2], kind[3]>>, kind[4])]

\* readings whose voltage and current are numbers
EsrRows ==
  RowOptions(
    << <<L_CcChg, Num(4), Num(2), CapsStd>>, <<L_CcChg, Num(3), Num(2), CapsStd>>,
       <<L_CcDisch, Num(3), Num(0), CapsStd>>, <<L_CcDisch, Num(3), Num(2), CapsStd>>,
       <<L_CcDChg, Num(5), Num(1), CapsStd>> >>)

\* readings with a cell that is no number
BadCellRows ==
  RowOptions(
    << <<L_CcChg, Num(4), Num(2), CapsStd>>, <<L_CcDisch, Num(3), Num(0), CapsStd>>,
       <<L_CcChg, T_abc, Num(5), CapsStd>>, <<L_CcChg, T_five, NaN, CapsStd>>,
       <<L_CcDisch, T_abc, Num(5), CapsStd>>,
       <<L_CcChg, T_abc, NaN, <<Num(7), Num(7), Num(7), Num(7)>> >> >>)

\* readings that differ in capacity and energy
CapRows ==
  RowOptions(
    << <<L_CcDChg, Num(3), Num(2), CapsStd>>,
       <<L_CcDChg, Num(3), Num(2), <<Num(0), Num(1), Num(0), Num(0)>> >>,
       <<L_CcDChg, Num(3), Num(2), <<NaN, Num(1), Num(4), T_abc>> >>,
       <<L_CcDChg, Num(3), Num(2), <<Num(4), Num(1), Num(5), Num(1)>> >> >>)

\* two cycles, each with one charge and one discharge reading
TwoCycleFiles ==
  LET vis == << <<Num(4), Num(2)>>, <<Num(3), Num(0)>>, <<Num(3), Num(2)>>,
               <<Num(2), Num(1)>> >>
  IN  {File(StdHeaders,
            <<MkRow(1, L_CcChg, vis[a], CapsStd), MkRow(1, L_CcDisch, vis[b], CapsStd),
              MkRow(2, L_CcChg, vis[c], CapsStd), MkRow(2, L_CcDisch, vis[e], CapsStd)>>) :
         a \in 1..4, b \in 1..4, c \in 1..4, e \in 1..4}

RowFiles ==
  {File(StdHeaders, rows) :
     rows \in RowSeqs(EsrRows, MaxRows) \cup RowSeqs(BadCellRows, MaxRows)
              \cup RowSeqs(CapRows, MaxRows)}
  \cup TwoCycleFiles \cup {MissingFile, InvalidFile}

\* step labels: a head, a separator, a word and a tail
LabelHeads ==
  {<<>>, <<"C","C">>, <<"c","c">>, <<"x","C","C">>,
   <<"C","o","n","s","t","a","n","t"," ","C","u","r","r","e","n","t">>,
   <<"C","O","N","S","T","A","N","T","C","U","R","R","E","N","T">>}

LabelSeps == {<<>>, <<" ">>, <<"_">>, <<"\n">>}

LabelWords ==
  {<<>>, <<"C","h","g">>, <<"D","C","h","g">>, <<"D","i","s","c","h">>,
   <<"D","i","s","c","h","a","r","g","e">>, <<"C","h","a","r","g","e">>,
   <<"R","e","s","t">>}

LabelTails == {<<>>, <<" ","C","h","g">>, <<"2">>}

Labels ==
  {h \o p \o w \o t : h \in LabelHeads, p \in LabelSeps, w \in LabelWords, t \in LabelTails}

L_ConstantCurrentCharge ==
  Text(<<"C","o","n","s","t","a","n","t"," ","C","u","r","r","e","n","t"," ",
         "C","h","a","r","g","e">>)

\* one reading under each label, beside one charge reading of the same
\* cycle with a lower voltage and a higher current
LabelFiles ==
  {File(StdHeaders,
        <<MkRow(1, IF l = <<>> THEN NaN ELSE Text(l), <<Num(5), Num(1)>>, CapsStd),
          MkRow(1, L_ConstantCurrentCharge, <<Num(4), Num(2)>>, CapsStd)>>) :
     l \in Labels}

\* the subsequence of q at the positions in S
SubSeqAt(q, S) ==
  LET RECURSIVE Take(_)
      Take(j) == IF j = 0 THEN <<>>
                 ELSE IF j \in S THEN Append(Take(j - 1), q[j])
                 ELSE Take(j - 1)
  IN  Take(Len(q))

\* exports that lack some of the columns
HeaderFiles ==
  {File(SubSeqAt(StdHeaders, S),
        <<SubSeqAt(MkRow(1, L_CcDChg, <<Num(3), Num(2)>>, CapsStd), S),
          SubSeqAt(MkRow(1, L_CcChg, <<Num(4), Num(1)>>, CapsStd), S)>>) :
     S \in SUBSET (1..Len(StdHeaders))}

\* a header row and no reading
ZeroRowFile == File(StdHeaders, <<>>)

PipeFiles == RowFiles \cup LabelFiles \cup HeaderFiles \cup {ZeroRowFile}

\* the files the user picks in the window
DialogFiles ==
  {File(StdHeaders,
        <<MkRow(1, L_CcChg, <<Num(4), Num(2)>>, CapsStd),
          MkRow(1, L_CcDisch, vi, CapsStd)>>) :
     vi \in {<<Num(3), Num(0)>>, <<Num(3), Num(2)>>, <<Num(2), Num(1)>>}}
  \cup {MissingFile, InvalidFile, ZeroRowFile,
        File(SubSeqAt(StdHeaders, {1, 2, 3}), <<>>),
        File(StdHeaders, <<MkRow(1, L_CcChg, <<Num(4), Num(2)>>, CapsStd)>>),
        File(StdHeaders,
             <<MkRow(1, L_CcChg, <<Num(4), Num(2)>>, CapsStd),
               MkRow(2, L_CcDisch, <<Num(3), Num(0)>>, CapsStd)>>)}

\* process_battery_data on each of them
Processed == [f \in DialogFiles |-> ProcessBatteryData(f)]

(***************************************************************************)
(* The window                                                              *)
(***************************************************************************)
\* a populate_treeview that returns before it deletes the rows of an empty
\* table
KeepTree(old, f) == IF IsEmpty(f) THEN old ELSE f

\* populate_treeview: the old rows deleted; no column for an empty table,
\* else the table's columns and rows
PopulateTreeview(old, f) == IF IsEmpty(f) THEN EmptyFrame ELSE f

\* the load button
LoadFile ==
  /\ prog = "ui"
  /\ \E file_path \in DialogFiles \cup {NoFile} :
       IF file_path = NoFile
       THEN UNCHANGED vars
       ELSE /\ excel_file' = file_path
            /\ IF ~Processed[file_path].error.none
               THEN /\ dialog' = [kind |-> "showerror", text |-> Processed[file_path].error.msg]
                    /\ selected_file' = "Error. Please try again."
                    /\ average_esr' = LabelNA
                    /\ average_ce' = LabelNA
                    /\ average_ee' = LabelNA
                    /\ results_df' = NoFrame
                    /\ export_button' = "disabled"
                    /\ tree' = PopulateTreeview(tree, EmptyFrame)
                    /\ last_load' = "error"
               ELSE /\ selected_file' = "Loaded"
                    /\ average_esr' = LabelValue(Processed[file_path].summary.avg_esr, 6)
                    /\ average_ce' = LabelValue(Processed[file_path].summary.avg_ce, 2)
                    /\ average_ee' = LabelValue(Processed[file_path].summary.avg_ee, 2)
                    /\ results_df' = Processed[file_path].df
                    /\ export_button' = "normal"
                    /\ tree' = PopulateTreeview(tree, Processed[file_path].df.frame)
                    /\ last_load' = "ok"
                    /\ UNCHANGED dialog
            /\ UNCHANGED <<prog, pipeVars, saved>>

\* the names the user types in the save dialog
SavePaths == {"", "results.xlsx", "results.csv", "results"}

\* the export button
ExportResults ==
  /\ prog = "ui"
  /\ IF results_df.none \/ IsEmpty(results_df.frame)
     THEN /\ dialog' = [kind |-> "showwarning", text |-> "No Data"]
          /\ UNCHANGED saved
     ELSE \E file_path \in SavePaths, written \in BOOLEAN :
            IF file_path = ""
            THEN UNCHANGED <<dialog, saved>>
            ELSE IF written
            THEN /\ saved' = [path   |-> IF file_path = "results" THEN "results.xlsx"
                                         ELSE file_path,
                              format |-> IF file_path = "results.csv" THEN "csv" ELSE "excel",
                              table  |-> results_df.frame]
                 /\ dialog' = [kind |-> "showinfo", text |-> "Export Successful"]
            ELSE /\ dialog' = [kind |-> "showerror", text |-> "Export Error"]
                 /\ UNCHANGED saved
  /\ UNCHANGED <<inputVars, pipeVars, selected_file, average_esr, average_ce,
                 average_ee, results_df, export_button, tree, last_load>>

\* the orders of four columns
Orders == {p \in [1..4 -> 1..4] : \A a, b \in 1..4 : p[a] = p[b] => a = b}

\* q with its last four entries in the order p
Reorder(q, p) == [j \in 1..Len(q) |-> IF j <= 4 THEN q[j] ELSE q[4 + p[j - 4]]]

\* exports with the capacity and energy columns in every order, one charge
\* and one discharge reading of one cycle
OrderFiles ==
  {File(Reorder(StdHeaders, p),
        <<Reorder(MkRow(1, L_CcChg, <<Num(4), Num(2)>>, CapsStd), p),
          Reorder(MkRow(1, L_CcDisch, <<Num(3), Num(0)>>, CapsStd), p)>>) :
     p \in Orders}

(***************************************************************************)
(* The programs over the generated files                                   *)
(***************************************************************************)
PipeInit ==
  /\ prog \in {"form", "batch"}
  /\ InitPipe
  /\ InitUI

RowInit    == excel_file \in RowFiles \cup {ZeroRowFile} /\ PipeInit
LabelInit  == excel_file \in LabelFiles /\ PipeInit
HeaderInit == excel_file \in HeaderFiles /\ PipeInit
OrderInit  == excel_file \in OrderFiles /\ PipeInit

\* the window before the first click
UIInit ==
  /\ excel_file = NoFile
  /\ prog = "ui"
  /\ InitPipe
  /\ InitUI

Init == RowInit \/ LabelInit \/ HeaderInit \/ OrderInit \/ UIInit

PipeNext ==
  \/ Form_Read \/ Form_Resolve \/ Form_Coerce \/ Form_Charge \/ Form_Discharge
  \/ Form_Capacity \/ Form_Join \/ Form_DropNa \/ Form_Metrics \/ Form_Return
  \/ Batch_Read \/ Batch_Resolve \/ Batch_Coerce \/ Batch_Charge
  \/ Batch_Discharge \/ Batch_Out \/ Batch_Merge \/ Batch_Esr

UINext == LoadFile \/ ExportResults

Next == PipeNext \/ UINext

Spec == Init /\ [][Next]_vars

\* the programs over files that differ in their readings
RowSpec == RowInit /\ [][PipeNext]_vars

\* the programs over files that differ in one step label
LabelSpec == LabelInit /\ [][PipeNext]_vars

\* the programs over files that differ in their header row
HeaderSpec == HeaderInit /\ [][PipeNext]_vars

\* the programs over files that differ in the order of their columns
OrderSpec == OrderInit /\ [][PipeNext]_vars

\* the window under any sequence of clicks
UISpec == UIInit /\ [][UINext]_vars

(***************************************************************************)
(* Properties                                                              *)
(***************************************************************************)
\* both masks have been computed over the rows of df
Classified ==
  /\ pc \notin {"start", "read", "resolved", "crashed"}
  /\ Len(mask_cc_chg) = Len(df.rows)
  /\ Len(mask_cc_dchg) = Len(df.rows)

\* the step label of row r of df
StepLabel(r) == df.rows[r][ColIdx(df, cols.step_col)]

T_CC_Chg == Text(<<"C","C","_","C","h","g">>)

L_ConstantCurrentDischarge ==
  Text(<<"C","o","n","s","t","a","n","t"," ","C","u","r","r","e","n","t"," ",
         "D","i","s","c","h","a","r","g","e">>)

\* C1: once the rows are classified, a row labelled "CC_Chg" is in the
\* charge class, a row labelled "Constant Current Discharge" is in the
\* discharge class, and a row labelled "Rest" is in neither
C1_Classification ==
  Classified =>
    \A r \in 1..Len(df.rows) :
      /\ StepLabel(r) = T_CC_Chg => mask_cc_chg[r]
      /\ StepLabel(r) = L_ConstantCurrentDischarge => mask_cc_dchg[r]
      /\ StepLabel(r) = L_Rest => ~mask_cc_chg[r] /\ ~mask_cc_dchg[r]

\* the part of C1 the programs keep: "Constant Current Discharge" is in the
\* discharge class only and "Rest" is in neither
C1_DischargeAndRest ==
  Classified =>
    \A r \in 1..Len(df.rows) :
      /\ StepLabel(r) = L_ConstantCurrentDischarge => mask_cc_dchg[r] /\ ~mask_cc_chg[r]
      /\ StepLabel(r) = L_Rest => ~mask_cc_chg[r] /\ ~mask_cc_dchg[r]

\* a classified "CC_Chg" row that is in neither class
C1_Underscore ==
  /\ Classified
  /\ \E r \in 1..Len(df.rows) :
       StepLabel(r) = T_CC_Chg /\ ~mask_cc_chg[r] /\ ~mask_cc_dchg[r]

\* process_battery_data has returned for a sheet that has every required
\* column and no data row
ZeroRowsReturned ==
  /\ prog = "form"
  /\ pc = "done"
  /\ excel_file.status = "ok"
  /\ excel_file.rows = <<>>
  /\ ~RaisesIndexError(FormLists(NormalizeColumns(excel_file.headers)))

\* C2 as claimed: for a sheet with every required column and no data row,
\* process_battery_data returns the 'no matching charge/discharge cycles'
\* error
C2_EmptyResult ==
  ZeroRowsReturned => ret = Failure(ErrorOf(MsgNoCycles))

\* C2: for a sheet with every required column and no data row,
\* process_battery_data returns the 'no Constant Current Charge steps' error:
\* an error, no table and no summary
C2_NoChargeSteps ==
  ZeroRowsReturned => ret = Failure(ErrorOf(MsgNoCharge))

\* the zero-row sheet has been processed and the charge-step error returned
C2_ZeroRowsDone ==
  ZeroRowsReturned /\ ~ret.error.none /\ ret.error.msg = MsgNoCharge /\ ret.df.none

\* the required fields no header of the sheet matches
Unmatched == {f \in AllFields : FormLists(df.columns)[f] = <<>>}

\* process_battery_data has returned the error of the column search
ColumnsFailed ==
  /\ prog = "form"
  /\ pc = "done"
  /\ ~ret.error.none
  /\ ret.error.msg = MsgColumns

\* C3 as claimed: when the column search fails, the fields the returned
\* error lists are the required fields that no header matches
C3_ListsUnmatched ==
  ColumnsFailed => ret.error.fields = Unmatched

\* the sheet lacks the current column alone and the error lists all eight
\* fields
C3_OnlyCurrentMissing ==
  ColumnsFailed /\ Unmatched = {"current_col"} /\ ret.error.fields = AllFields

\* C4: after any sequence of clicks, when the last load that was not
\* cancelled ended in an error, results_df is None, the export button is
\* disabled, the table widget has no column and no row, and the three
\* summary labels read N/A
C4_NoStaleResult ==
  last_load = "error" =>
    /\ results_df = NoFrame
    /\ export_button = "disabled"
    /\ tree = EmptyFrame
    /\ average_esr = LabelNA
    /\ average_ce = LabelNA
    /\ average_ee = LabelNA

\* a load has failed after the result of an earlier load was exported
C4_ErrorAfterSuccess ==
  /\ last_load = "error"
  /\ saved.path # ""
  /\ dialog.kind = "showerror"
  /\ selected_file = "Error. Please try again."

\* the ESR the claims give each row of a joined table: the voltage
\* difference over the current difference, and the undefined marker when the
\* current difference is zero
ClaimedEsr(m) ==
  With(<<SubCols(Column(m, "Max Voltage CC-Chg (V)"), Column(m, "Max Voltage CC-DChg (V)")),
         SubCols(Column(m, "Max Current CC-Chg (A)"), Column(m, "Max Current CC-DChg (A)"))>>,
       LAMBDA p :
         [r \in 1..Len(p[1]) |->
            IF IsFin(p[2][r]) /\ p[2][r].n = 0 THEN NaN ELSE Div(p[1][r], p[2][r])])

\* the ESR column of process_battery_data is the claimed one: at full
\* precision before the rounding, rounded to six decimals in the returned
\* table; the rows are the complete cycles and the call returns no error
FormEsrAsClaimed ==
  /\ (prog = "form" /\ pc = "metrics") =>
       Column(merged, "ESR (Ohm)") = ClaimedEsr(merged)
  /\ (prog = "form" /\ pc = "done" /\ ~ret.df.none) =>
       /\ ret.error.none
       /\ ret.df.frame = merged
       /\ Column(merged, "ESR (Ohm)")
            = [r \in 1..Len(merged.rows) |-> RoundDec(ClaimedEsr(merged)[r], 6)]
  /\ (prog = "form" /\ pc \in {"metrics", "done"} /\ ~IsEmpty(merged)) =>
       Column(merged, "Cycle Index")
         = Column(FormComplete(FormJoin(cols.cycle_col, max_v_cc_chg, max_v_cc_dchg,
                                        max_i_cc_chg, max_i_cc_dchg,
                                        chg_cap, dchg_cap, chg_nrg, dchg_nrg)),
                  "Cycle Index")

\* the ESR column of the batch script's table is the claimed one
BatchEsrAsClaimed ==
  (prog = "batch" /\ pc = "done") =>
    Column(merged, "ESR (Ohm)") = ClaimedEsr(merged)

\* C5 as claimed: in the final table of either program the ESR of a cycle
\* is the voltage difference over the current difference when the current
\* difference is not zero and the undefined marker when it is zero, the
\* cycle stays in the table and no error is returned
C5_EsrPerCycle == FormEsrAsClaimed /\ BatchEsrAsClaimed

\* the part of C5 that process_battery_data keeps
C5_FormEsr == FormEsrAsClaimed

\* the batch script's table holds an infinite ESR for a cycle whose current
\* difference is zero
C5_BatchInfinite ==
  /\ prog = "batch" /\ pc = "done"
  /\ \E r \in 1..Len(merged.rows) :
       /\ IsInf(Column(merged, "ESR (Ohm)")[r])
       /\ ClaimedEsr(merged)[r] = NaN

\* process_battery_data has returned a table with a cycle whose current
\* difference is zero and whose ESR is the undefined marker
C5_FormUndefined ==
  /\ prog = "form" /\ pc = "done" /\ ~ret.df.none
  /\ \E r \in 1..Len(merged.rows) :
       /\ Column(merged, "Max Current CC-Chg (A)")[r] = Column(merged, "Max Current CC-DChg (A)")[r]
       /\ Column(merged, "Max Voltage CC-Chg (V)")[r] # Column(merged, "Max Voltage CC-DChg (V)")[r]
       /\ IsNaN(Column(merged, "ESR (Ohm)")[r])

\* the arithmetic mean of the entries of a column that are defined, and the
\* undefined marker when none is
RECURSIVE SumOver(_, _)
SumOver(col, D) ==
  IF D = {} THEN Num(0)
  ELSE With(CHOOSE r \in D : TRUE, LAMBDA r : Add(col[r], SumOver(col, D \ {r})))

MeanOfDefined(col) ==
  With({r \in 1..Len(col) : ~IsNaN(col[r])}, LAMBDA D :
    IF D = {} THEN NaN ELSE Div(SumOver(col, D), Num(Cardinality(D))))

\* the three summary scalars of process_battery_data are the means of the
\* derived columns over the cycles where they are defined
FormMeans ==
  /\ (prog = "form" /\ pc = "metrics") =>
       /\ summary_metrics.avg_esr = MeanOfDefined(Column(merged, "ESR (Ohm)"))
       /\ summary_metrics.avg_ce = MeanOfDefined(Column(merged, "Coulombic Efficiency (%)"))
       /\ summary_metrics.avg_ee = MeanOfDefined(Column(merged, "Energy Efficiency (%)"))
  /\ (prog = "form" /\ pc = "done" /\ ~ret.df.none) => ret.summary = summary_metrics

\* the batch script's table has the four ESR inputs of every cycle, and each
\* ESR of it is the claimed one
BatchTableSound ==
  /\ \A r \in 1..Len(merged.rows) : \A j \in 1..Len(merged.rows[r]) : IsFin(merged.rows[r][j])
  /\ Column(merged, "ESR (Ohm)") = ClaimedEsr(merged)

\* C6 as claimed: the summary scalars of process_battery_data, and the ESR
\* the batch script prints, are the means of the per-cycle columns over the
\* cycles where the value is defined
C6_MeanOfPerCycle ==
  /\ FormMeans
  /\ (prog = "batch" /\ pc = "done" /\ BatchTableSound) =>
       esr = MeanOfDefined(Column(merged, "ESR (Ohm)"))

\* C6: the summary scalars of process_battery_data are the means of the
\* per-cycle columns over the cycles where the value is defined, undefined
\* when none is; the ESR the batch script prints is the mean voltage
\* difference over the mean current difference, each mean over the cycles
\* where that difference is defined
C6_Means ==
  /\ FormMeans
  /\ (prog = "batch" /\ pc = "done") =>
       /\ dv = MeanOfDefined(SubCols(Column(merged, "Max Voltage CC-Chg (V)"),
                                     Column(merged, "Max Voltage CC-DChg (V)")))
       /\ di = MeanOfDefined(SubCols(Column(merged, "Max Current CC-Chg (A)"),
                                     Column(merged, "Max Current CC-DChg (A)")))
       /\ esr = Div(dv, di)

\* process_battery_data has averaged the ESR over one of two cycles, the
\* other having no current difference
C6_UndefinedExcluded ==
  /\ prog = "form" /\ pc = "metrics"
  /\ Len(merged.rows) = 2
  /\ IsNaN(Column(merged, "ESR (Ohm)")[1])
  /\ IsFin(Column(merged, "ESR (Ohm)")[2])
  /\ summary_metrics.avg_esr = Column(merged, "ESR (Ohm)")[2]

\* the per-cycle maximum agg has a value for cycle c
Present(agg, c) ==
  \E r \in 1..Len(agg.rows) : agg.rows[r][1] = c /\ ~IsNaN(agg.rows[r][2])

\* the cycles some per-cycle maximum has
Keys(aggs) == UNION {{agg.rows[r][1] : r \in 1..Len(agg.rows)} : agg \in aggs}

EsrInputs == {max_v_cc_chg, max_v_cc_dchg, max_i_cc_chg, max_i_cc_dchg}
CapInputs == {chg_cap, dchg_cap, chg_nrg, dchg_nrg}

\* the cycles that have every one of the given maxima
CompleteCycles(aggs) == {c \in Keys(aggs) : \A agg \in aggs : Present(agg, c)}

\* the cycles of a table
CyclesOf(m) == {m.rows[r][1] : r \in 1..Len(m.rows)}

\* the table of process_battery_data holds the cycles that have all eight
\* maxima, and the call fails when there is none
FormKeepsComplete ==
  /\ (prog = "form" /\ pc \in {"complete", "metrics"}) =>
       CyclesOf(merged) = CompleteCycles(EsrInputs \cup CapInputs)
  /\ (prog = "form" /\ pc = "done" /\ ~ret.df.none) =>
       CyclesOf(ret.df.frame) = CompleteCycles(EsrInputs \cup CapInputs)
  /\ (prog = "form" /\ pc = "done" /\ ret = Failure(ErrorOf(MsgNoCycles))) =>
       CompleteCycles(EsrInputs \cup CapInputs) = {}

\* C7 as claimed: the final table of either program holds a cycle exactly
\* when the cycle has every required maximum: all eight in
\* process_battery_data, the four ESR inputs in the batch script
C7_CompleteCycles ==
  /\ FormKeepsComplete
  /\ (prog = "batch" /\ pc = "done") => CyclesOf(merged) = CompleteCycles(EsrInputs)

\* the part of C7 that process_battery_data keeps
C7_FormComplete == FormKeepsComplete

\* the batch script's table holds a cycle that lacks an ESR input
C7_BatchKeepsIncomplete ==
  /\ prog = "batch" /\ pc = "done"
  /\ \E c \in CyclesOf(merged) : c \notin CompleteCycles(EsrInputs)

\* process_battery_data has dropped a cycle that lacks a maximum and kept
\* another
C7_FormDropped ==
  /\ prog = "form" /\ pc = "done" /\ ~ret.df.none
  /\ CyclesOf(ret.df.frame) # {}
  /\ CyclesOf(ret.df.frame) # Keys(EsrInputs \cup CapInputs)

\* the sheet as read, before any cell is converted or any row dropped
SheetAsRead == Frame(NormalizeColumns(excel_file.headers), excel_file.rows)

\* some row of the sheet carries a label of the charge class
SheetHasCharge ==
  \E r \in 1..Len(excel_file.rows) : MaskCcChg(SheetAsRead, cols.step_col)[r]

\* some row of the sheet carries a label of the discharge class
SheetHasDischarge ==
  \E r \in 1..Len(excel_file.rows) : MaskCcDchg(SheetAsRead, cols.step_col)[r]

\* process_battery_data has returned for a sheet whose columns resolve
ResolvedReturned ==
  /\ prog = "form"
  /\ pc = "done"
  /\ cols # NoCols

\* C8 as claimed: with resolvable columns process_battery_data returns the
\* 'no CC-charge steps' error exactly when no row of the sheet has a charge
\* label, and the 'no CC-discharge steps' error exactly when some row has a
\* charge label and none has a discharge label, whatever the voltage and
\* current cells hold
C8_StepErrors ==
  ResolvedReturned =>
    /\ ret = Failure(ErrorOf(MsgNoCharge)) <=> ~SheetHasCharge
    /\ ret = Failure(ErrorOf(MsgNoDischarge)) <=> (SheetHasCharge /\ ~SheetHasDischarge)

\* the 'no CC-charge steps' error for a sheet that has a row with a charge
\* label, whose voltage is no number
C8_ChargeRowLost ==
  /\ ResolvedReturned
  /\ ret = Failure(ErrorOf(MsgNoCharge))
  /\ SheetHasCharge

\* the sheet with the numeric columns the program resolves converted and
\* every row kept, and the positions of its columns
Kept ==
  With(Coerce(SheetAsRead,
              {ColIdx(SheetAsRead, cols[x]) : x \in DOMAIN cols \ {"cycle_col", "step_col"}}),
       LAMBDA f :
         [rows  |-> f.rows,
          at    |-> [x \in DOMAIN cols |-> ColIdx(f, cols[x])],
          chg   |-> MaskCcChg(f, cols.step_col),
          dchg  |-> MaskCcDchg(f, cols.step_col)])

\* the largest number of a set of cells, the undefined marker when it has
\* none
MaxOfSet(S) ==
  With({x \in S : IsFin(x)}, LAMBDA F :
    IF F = {} THEN NaN ELSE CHOOSE x \in F : \A y \in F : ~Less(x, y))

\* the value of a per-cycle maximum for cycle c, absent counting as undefined
AggValue(agg, c) ==
  IF \E r \in 1..Len(agg.rows) : agg.rows[r][1] = c
  THEN agg.rows[CHOOSE r \in 1..Len(agg.rows) : agg.rows[r][1] = c][2]
  ELSE NaN

\* the rows of cycle c in a class: "chg", "dchg" or "all"
RowsOf(k, c, class) ==
  {r \in 1..Len(k.rows) :
     /\ k.rows[r][k.at.cycle_col] = c
     /\ \/ class = "all"
        \/ class = "chg" /\ k.chg[r]
        \/ class = "dchg" /\ k.dchg[r]}

\* row r has a number for its voltage, or for its current
HasV(k, r) == IsFin(k.rows[r][k.at.voltage_col])
HasI(k, r) == IsFin(k.rows[r][k.at.current_col])

\* the maximum of a field over the rows of a cycle and class, every row kept
\* and an absent cell ignored
KeptValue(k, c, class, field) ==
  MaxOfSet({k.rows[r][k.at[field]] : r \in RowsOf(k, c, class)})

\* the same maximum over the rows that have both voltage and current
DroppedValue(k, c, class, field) ==
  MaxOfSet({k.rows[r][k.at[field]] :
              r \in {q \in RowsOf(k, c, class) : HasV(k, q) /\ HasI(k, q)}})

SheetCycles(k) == {k.rows[r][k.at.cycle_col] : r \in 1..Len(k.rows)}

\* the eight per-cycle maxima with their class and field
FormAggregates ==
  {<<max_v_cc_chg, "chg", "voltage_col">>, <<max_i_cc_chg, "chg", "current_col">>,
   <<max_v_cc_dchg, "dchg", "voltage_col">>, <<max_i_cc_dchg, "dchg", "current_col">>,
   <<chg_cap, "all", "chg_cap_col">>, <<dchg_cap, "all", "dchg_cap_col">>,
   <<chg_nrg, "all", "chg_nrg_col">>, <<dchg_nrg, "all", "dchg_nrg_col">>}

BatchAggregates ==
  {<<max_v_cc_chg, "chg", "voltage_col">>, <<max_i_cc_chg, "chg", "current_col">>,
   <<max_v_cc_dchg, "dchg", "voltage_col">>, <<max_i_cc_dchg, "dchg", "current_col">>}

\* process_battery_data has computed its eight per-cycle maxima
FormAggregated == prog = "form" /\ pc \in {"capacity", "joined", "complete", "metrics"}

\* the batch script has computed its four per-cycle maxima
BatchAggregated == prog = "batch" /\ pc \in {"discharge", "out", "merged", "done"}

\* C9 as claimed: for every sheet, each per-cycle maximum that
\* process_battery_data computes after dropping the rows without voltage
\* or current is the maximum over all rows with only the absent cells
\* ignored
C9_SameAggregates ==
  FormAggregated =>
    \A k \in {Kept} : \A a \in FormAggregates : \A c \in SheetCycles(k) :
      AggValue(a[1], c) = KeptValue(k, c, a[2], a[3])

\* C9: the batch script's maxima are those over all rows with the absent
\* cells ignored; the maxima of process_battery_data are those over the rows
\* that have both voltage and current, never above the former, and the two
\* agree for a cycle and class in which every row has both voltage and
\* current or else no number in the field
C9_AggregatesWhenPaired ==
  /\ BatchAggregated =>
       \A k \in {Kept} : \A a \in BatchAggregates : \A c \in SheetCycles(k) :
         AggValue(a[1], c) = KeptValue(k, c, a[2], a[3])
  /\ FormAggregated =>
       \A k \in {Kept} : \A a \in FormAggregates : \A c \in SheetCycles(k) :
         /\ AggValue(a[1], c) = DroppedValue(k, c, a[2], a[3])
         /\ ~Less(KeptValue(k, c, a[2], a[3]), AggValue(a[1], c))
         /\ (\A r \in RowsOf(k, c, a[2]) :
               \/ HasV(k, r) /\ HasI(k, r)
               \/ ~IsFin(k.rows[r][k.at[a[3]]]))
            => AggValue(a[1], c) = KeptValue(k, c, a[2], a[3])

\* process_battery_data has dropped a charge row that has neither voltage
\* nor current, and the charge maxima of its cycle are those over all rows
C9_DroppedAndEqual ==
  /\ FormAggregated
  /\ \E k \in {Kept} : \E r \in 1..Len(k.rows) :
       /\ k.chg[r] /\ ~HasV(k, r) /\ ~HasI(k, r)
       /\ IsFin(AggValue(max_v_cc_chg, k.rows[r][k.at.cycle_col]))
       /\ AggValue(max_v_cc_chg, k.rows[r][k.at.cycle_col])
            = KeptValue(k, k.rows[r][k.at.cycle_col], "chg", "voltage_col")
       /\ AggValue(max_i_cc_chg, k.rows[r][k.at.cycle_col])
            = KeptValue(k, k.rows[r][k.at.cycle_col], "chg", "current_col")

\* the label of row r, as the patterns see it without its case
LabelText(r) == Lower(AsStr(StepLabel(r)))

\* the cycle, voltage and current of row r of df
CycleAt(r)   == df.rows[r][ColIdx(df, cols.cycle_col)]
VoltageAt(r) == df.rows[r][ColIdx(df, cols.voltage_col)]
CurrentAt(r) == df.rows[r][ColIdx(df, cols.current_col)]

\* C10: once the rows are classified, a row whose label has the word cc
\* followed by dchg or discharge is in the discharge class and in the
\* charge class, and the charge maxima of its cycle are at least its
\* voltage and its current; a row in the discharge class alone has a label
\* with the word cc followed by disch, or with the phrase constant current
\* discharge
C10_DischargeAlsoCharge ==
  Classified =>
    \A r \in 1..Len(df.rows) :
      /\ CcThen({W_dchg, W_discharge}, LabelText(r)) =>
           /\ mask_cc_dchg[r]
           /\ mask_cc_chg[r]
           /\ ~Less(AggValue(max_v_cc_chg, CycleAt(r)), VoltageAt(r))
           /\ ~Less(AggValue(max_i_cc_chg, CycleAt(r)), CurrentAt(r))
           /\ IsFin(AggValue(max_v_cc_chg, CycleAt(r)))
      /\ (mask_cc_dchg[r] /\ ~mask_cc_chg[r]) =>
           \/ CcThen({W_disch}, LabelText(r))
           \/ ConstantCurrent(W_discharge, LabelText(r))

\* a row labelled "CC DChg" is in both classes and its voltage, above that
\* of the charge row beside it, is the charge maximum of the cycle
C10_DChgRaisesChargeMax ==
  /\ Classified
  /\ \E r \in 1..Len(df.rows) :
       /\ StepLabel(r) = L_CcDChg
       /\ mask_cc_chg[r] /\ mask_cc_dchg[r]
       /\ AggValue(max_v_cc_chg, CycleAt(r)) = VoltageAt(r)
       /\ \E q \in 1..Len(df.rows) : Less(VoltageAt(q), VoltageAt(r))

(***************************************************************************)
(* Header order                                                            *)
(***************************************************************************)
\* the normalised name of a header
Normal(h) == NormalizeColumns(<<h>>)[1]

\* the sheet has the header h exactly once
OnceIn(h) ==
  Cardinality({j \in 1..Len(excel_file.headers) : excel_file.headers[j] = h}) = 1

\* process_battery_data has resolved the columns of a sheet with one column
\* for each capacity and energy
OrderResolved ==
  /\ prog = "form"
  /\ cols # NoCols
  /\ OnceIn(H_chg_cap) /\ OnceIn(H_dchg_cap)
  /\ OnceIn(H_chg_nrg) /\ OnceIn(H_dchg_nrg)

\* the four fields are resolved to their own columns
OwnColumns ==
  /\ cols.chg_cap_col = Normal(H_chg_cap)
  /\ cols.dchg_cap_col = Normal(H_dchg_cap)
  /\ cols.chg_nrg_col = Normal(H_chg_nrg)
  /\ cols.dchg_nrg_col = Normal(H_dchg_nrg)

\* the charge column stands before the discharge column, for capacity and
\* for energy
ChargeColumnsFirst ==
  \A pair \in {<<H_chg_cap, H_dchg_cap>>, <<H_chg_nrg, H_dchg_nrg>>} :
    \A a, b \in 1..Len(excel_file.headers) :
      (excel_file.headers[a] = pair[1] /\ excel_file.headers[b] = pair[2]) => a < b

\* C11 as claimed: for every header order of a sheet with one column for
\* each capacity and energy, charge capacity and discharge capacity (and
\* charge energy and discharge energy) are resolved to two different
\* columns, the charge field to the charge column and the discharge field
\* to the discharge column
C11_DistinctColumns ==
  OrderResolved =>
    /\ OwnColumns
    /\ cols.chg_cap_col # cols.dchg_cap_col
    /\ cols.chg_nrg_col # cols.dchg_nrg_col

\* the part of C11 the program keeps: the four fields are resolved to their
\* own columns when each charge column stands before its discharge column
C11_ChargeFirst ==
  (OrderResolved /\ ChargeColumnsFirst) => OwnColumns

\* the discharge capacity column stands first, both capacity fields are
\* resolved to it, and the coulombic efficiency returned is 100 for
\* capacities 2 and 1
C11_SameColumn ==
  /\ OrderResolved
  /\ pc = "done" /\ ~ret.df.none
  /\ cols.chg_cap_col = Normal(H_dchg_cap)
  /\ cols.dchg_cap_col = Normal(H_dchg_cap)
  /\ \A r \in 1..Len(merged.rows) :
       Column(merged, "Coulombic Efficiency (%)")[r] = Num(100)

=============================================================================
